---- MODULE Spec2Model ----
(***************************************************************************)
(* input-device-manager (src/src/main.c): the device tree that             *)
(* query_devices keeps in step with the X server's input hierarchy, and    *)
(* the handlers that edit the hierarchy.  main.c holds two variants of the *)
(* program: the immediate one (lines 1-807), whose handlers send each      *)
(* change at once, and the staged one (lines 809-1584), which keeps a list *)
(* of changes for an Apply button.                                         *)
(***************************************************************************)
EXTENDS Integers, Sequences, FiniteSets, TLC

VARIABLES
    variant,     \* "immediate" (main.c:1-807) or "staged" (main.c:809-1584)
    pc,          \* "start" before main has built the view, "loop" waiting in
                 \* the dialog loop, "handled" when a handler has just run,
                 \* "exit" after the loop, "abort" when the process died
    srv,         \* the X server's device list, in the server's order
    outbuf,      \* Xlib's output buffer: requests issued and not yet flushed
    tree,        \* the GtkTreeStore: a sequence of depth-0 rows with their kids
    generation,  \* gds->generation
    changes,     \* gds->changes, the GList of staged changes
    devs,        \* the array the last XIQueryDevice returned
    ev,          \* the event just handled: [h |-> the handler, req |-> the
                 \* hierarchy changes it issued, q |-> query_devices ran]
    sensitive,   \* whether the Undo / Apply+Cancel responses are sensitive
    envSteps     \* server-side events since the last query (bounded)

vars == <<variant, pc, srv, outbuf, tree, generation, changes, devs,
          ev, sensitive, envSteps>>

(***************************************************************************)
(* Bounds of the model                                                     *)
(***************************************************************************)
MaxGen == 3
MaxEnv == 1
MaxChanges == 2
MaxBurst == 2

\* Device ids of the model: the two reserved masters and three more ids.
VCP == 2
VCK == 3
ExtraIds == {5, 6, 9}
DevIds == {VCP, VCK} \cup ExtraIds

\* What a slave with the id is: a pointer or a keyboard device.
SlaveKind(id) == IF id = 5 THEN "kbd" ELSE "ptr"

\* Values XIQueryDevice may leave in the attachment field of a floating
\* slave (the field is undefined for such a device).
FloatAttVals == {0, 5}

(***************************************************************************)
(* XInput2 "use" values and the ids of the synthetic Floating row          *)
(***************************************************************************)
XIMasterPointer == 1
XIMasterKeyboard == 2
XISlavePointer == 3
XISlaveKeyboard == 4
XIFloatingSlave == 5
ID_FLOATING == -1

IsMasterUse(use) == use = XIMasterPointer \/ use = XIMasterKeyboard

\* a handler that takes a master for a slave
MasterSelectedNever(use) == FALSE

\* "MD selected?", main.c:217-219 and main.c:980-982
MasterSelected(use) == use = XIMasterPointer \/ use = XIMasterKeyboard

\* id and use the variant gives the Floating row
FloatingId(v) == IF v = "immediate" THEN ID_FLOATING ELSE XIFloatingSlave

(***************************************************************************)
(* Sequences                                                               *)
(***************************************************************************)
First(S) == IF S = {} THEN 0 ELSE CHOOSE i \in S : \A j \in S : i <= j

RemoveAt(s, i) == SubSeq(s, 1, i - 1) \o SubSeq(s, i + 1, Len(s))

InsertAt(s, i, e) == SubSeq(s, 1, i - 1) \o <<e>> \o SubSeq(s, i, Len(s))

Range(s) == {s[i] : i \in 1..Len(s)}

(***************************************************************************)
(* The X server: a device is [id, kind, att]; kind is "mp", "mk" (masters, *)
(* att the paired master) or "ptr", "kbd" (slaves, att the master they are *)
(* attached to, 0 when floating).                                          *)
(***************************************************************************)
IsMasterDev(d) == d.kind \in {"mp", "mk"}

SrvIds(s) == {s[i].id : i \in 1..Len(s)}

SrvDev(s, id) == s[First({i \in 1..Len(s) : s[i].id = id})]

SrvMasters(s, kind) == {s[i].id : i \in {j \in 1..Len(s) : s[j].kind = kind}}

UseOf(d) ==
    CASE d.kind = "mp" -> XIMasterPointer
      [] d.kind = "mk" -> XIMasterKeyboard
      [] d.att = 0 -> XIFloatingSlave
      [] d.kind = "ptr" -> XISlavePointer
      [] OTHER -> XISlaveKeyboard

NameOf(d) == d.kind

\* XIQueryDevice(dpy, XIAllDevices): one XIDeviceInfo per device, in the
\* server's order; fa gives the attachment field of the floating slaves.
XIQueryDevice(s, fa) ==
    [i \in 1..Len(s) |->
        [deviceid |-> s[i].id,
         name |-> NameOf(s[i]),
         use |-> UseOf(s[i]),
         attachment |-> IF UseOf(s[i]) = XIFloatingSlave
                        THEN fa[s[i].id] ELSE s[i].att]]

FloatingIds(s) == {s[i].id : i \in {j \in 1..Len(s) : UseOf(s[j]) = XIFloatingSlave}}

(***************************************************************************)
(* XIChangeHierarchy as the server carries it out.  A change is            *)
(*   [type |-> "attach", deviceid, new_master]    XIAttachSlave            *)
(*   [type |-> "detach", deviceid]                XIDetachSlave            *)
(*   [type |-> "add"]                             XIAddMaster              *)
(*   [type |-> "remove", deviceid, return_mode, return_pointer,            *)
(*             return_keyboard]                   XIRemoveMaster           *)
(* The result is [s |-> the new device list, ok |-> no X error].           *)
(***************************************************************************)
AttachReq(id, to) == [type |-> "attach", deviceid |-> id, new_master |-> to]

DetachReq(id) == [type |-> "detach", deviceid |-> id]

AddReq == [type |-> "add"]

\* a remove_master that lets the slaves float
RemoveReqAttachFloating(id) ==
    [type |-> "remove", deviceid |-> id, return_mode |-> "XIFloating",
     return_pointer |-> 0, return_keyboard |-> 0]

\* the immediate variant's XIRemoveMasterInfo (remove_master, main.c:135)
RemoveReqAttach(id) ==
    [type |-> "remove", deviceid |-> id, return_mode |-> "XIAttachToMaster",
     return_pointer |-> VCP, return_keyboard |-> VCK]

\* the staged variant's XIRemoveMasterInfo (remove_master, main.c:911)
RemoveReqFloat(id) ==
    [type |-> "remove", deviceid |-> id, return_mode |-> "XIFloating",
     return_pointer |-> 0, return_keyboard |-> 0]

SetAtt(s, id, to) ==
    [i \in 1..Len(s) |-> IF s[i].id = id THEN [s[i] EXCEPT !.att = to] ELSE s[i]]

ServerAttach(s, c) ==
    IF /\ c.deviceid \in SrvIds(s)
       /\ c.new_master \in SrvIds(s)
       /\ \/ SrvDev(s, c.deviceid).kind = "ptr" /\ SrvDev(s, c.new_master).kind = "mp"
          \/ SrvDev(s, c.deviceid).kind = "kbd" /\ SrvDev(s, c.new_master).kind = "mk"
    THEN [s |-> SetAtt(s, c.deviceid, c.new_master), ok |-> TRUE]
    ELSE [s |-> s, ok |-> FALSE]

ServerDetach(s, c) ==
    IF c.deviceid \in SrvIds(s) /\ ~IsMasterDev(SrvDev(s, c.deviceid))
    THEN [s |-> SetAtt(s, c.deviceid, 0), ok |-> TRUE]
    ELSE [s |-> s, ok |-> FALSE]

ServerAdd(s) ==
    LET free == DevIds \ SrvIds(s)
        p == First(free)
        k == First(free \ {p})
    IN  IF Cardinality(free) >= 2
        THEN [s |-> s \o <<[id |-> p, kind |-> "mp", att |-> k],
                           [id |-> k, kind |-> "mk", att |-> p]>>,
              ok |-> TRUE]
        ELSE [s |-> s, ok |-> FALSE]

ServerRemove(s, c) ==
    IF /\ c.deviceid \in SrvIds(s)
       /\ IsMasterDev(SrvDev(s, c.deviceid))
       /\ c.deviceid \notin {VCP, VCK}
       /\ c.return_mode = "XIAttachToMaster" =>
              /\ c.return_pointer \in SrvMasters(s, "mp") \ {c.deviceid, SrvDev(s, c.deviceid).att}
              /\ c.return_keyboard \in SrvMasters(s, "mk") \ {c.deviceid, SrvDev(s, c.deviceid).att}
    THEN LET gone == {c.deviceid, SrvDev(s, c.deviceid).att}
             Keep(d) == d.id \notin gone
             Back(d) == IF IsMasterDev(d) \/ d.att \notin gone THEN d
                        ELSE IF c.return_mode = "XIFloating" THEN [d EXCEPT !.att = 0]
                        ELSE IF d.kind = "ptr" THEN [d EXCEPT !.att = c.return_pointer]
                        ELSE [d EXCEPT !.att = c.return_keyboard]
             kept == SelectSeq(s, Keep)
         IN  [s |-> [i \in 1..Len(kept) |-> Back(kept[i])], ok |-> TRUE]
    ELSE [s |-> s, ok |-> FALSE]

ServerChange(s, c) ==
    CASE c.type = "attach" -> ServerAttach(s, c)
      [] c.type = "detach" -> ServerDetach(s, c)
      [] c.type = "add" -> ServerAdd(s)
      [] OTHER -> ServerRemove(s, c)

(***************************************************************************)
(* The tree store.  A depth-0 row is [id, name, use, gen, born, kids], a   *)
(* child row [id, name, use, gen, born]: the columns COL_ID, COL_NAME,     *)
(* COL_USE and COL_GENERATION, and born, the value of gds->generation when *)
(* the row was created, which tells one row instance from a later one.     *)
(***************************************************************************)
NewRow(dev, g) ==
    [id |-> dev.deviceid, name |-> dev.name, use |-> dev.use,
     gen |-> g, born |-> g, kids |-> <<>>]

NewKid(dev, g) ==
    [id |-> dev.deviceid, name |-> dev.name, use |-> dev.use,
     gen |-> g, born |-> g]

\* the loop of gtk_tree_model_get_iter_first / iter_next that stops at the
\* first depth-0 row with the id (0: no such row)
RootIndex(t, id) == First({i \in 1..Len(t) : t[i].id = id})

KidIndex(kids, id) == First({j \in 1..Len(kids) : kids[j].id = id})

\* a pass that gives every master a new row
MasterStepAlwaysNew(t, g, dev) ==
    IF ~IsMasterUse(dev.use) THEN t ELSE Append(t, NewRow(dev, g))

\* main.c:496-533, one turn of the loop over the masters
MasterStep(t, g, dev) ==
    IF ~IsMasterUse(dev.use) THEN t
    ELSE LET i == RootIndex(t, dev.deviceid)
         IN  IF i # 0 THEN [t EXCEPT ![i].gen = g]
             ELSE Append(t, NewRow(dev, g))

\* a pass that takes the masters from the end of the list
RECURSIVE MastersPassReversed(_, _, _, _)
MastersPassReversed(t, g, devices, i) ==
    IF i > Len(devices) THEN t
    ELSE MasterStep(MastersPassReversed(t, g, devices, i + 1), g, devices[i])

RECURSIVE MastersPass(_, _, _, _)
MastersPass(t, g, devices, i) ==
    IF i > Len(devices) THEN t
    ELSE MastersPass(MasterStep(t, g, devices[i]), g, devices, i + 1)

\* a pass that stamps the Floating row where it stands
FloatingPassInPlace(t, g, fid) ==
    LET i == RootIndex(t, fid)
    IN  IF i = 0
        THEN Append(t, [id |-> fid, name |-> "Floating", use |-> fid,
                        gen |-> g, born |-> g, kids |-> <<>>])
        ELSE [t EXCEPT ![i].gen = g]

\* main.c:535-575 (fid = ID_FLOATING) and main.c:1316-1356 (fid = XIFloatingSlave)
FloatingPass(t, g, fid) ==
    LET i == RootIndex(t, fid)
    IN  IF i = 0
        THEN Append(t, [id |-> fid, name |-> "Floating", use |-> fid,
                        gen |-> g, born |-> g, kids |-> <<>>])
        ELSE Append(RemoveAt(t, i), [t[i] EXCEPT !.gen = g])

\* a pass that files every slave under the Floating row
SlaveParentFloatingOnly(t, dev) == RootIndex(t, ID_FLOATING)

\* main.c:589-592: the first depth-0 row the slave belongs under
SlaveParent(t, dev) ==
    First({i \in 1..Len(t) :
              \/ dev.attachment = t[i].id
              \/ dev.use = XIFloatingSlave /\ t[i].id = ID_FLOATING})

\* a pass that appends a child without looking for the one there is
AttachKidAlwaysNew(st, g, dev, i) ==
    [t |-> [st.t EXCEPT ![i].kids = Append(st.t[i].kids, NewKid(dev, g))],
     ub |-> st.ub \/ Len(st.t[i].kids) > 0]

\* main.c:596-623: stamp the child with the slave's id, or append one.
\* st is [t, ub]; ub records that gtk_tree_model_get was called at line 599
\* without the -1 that ends its argument list.
AttachKid(st, g, dev, i) ==
    LET kids == st.t[i].kids
        j == KidIndex(kids, dev.deviceid)
    IN  [t |-> IF j # 0 THEN [st.t EXCEPT ![i].kids[j].gen = g]
               ELSE [st.t EXCEPT ![i].kids = Append(kids, NewKid(dev, g))],
         ub |-> st.ub \/ Len(kids) > 0]

\* main.c:580-628, one turn of the loop over the slaves
SlaveStep(st, g, dev) ==
    IF IsMasterUse(dev.use) THEN st
    ELSE LET i == SlaveParent(st.t, dev)
         IN  IF i = 0 THEN st ELSE AttachKid(st, g, dev, i)

RECURSIVE SlavesPass(_, _, _, _)
SlavesPass(st, g, devices, i) ==
    IF i > Len(devices) THEN st
    ELSE SlavesPass(SlaveStep(st, g, devices[i]), g, devices, i + 1)

\* a sweep that removes no child row
SweepKidsKeepsAll(kids, g, j) == kids

\* main.c:640-648: gtk_tree_store_remove leaves the iterator on the next row
RECURSIVE SweepKids(_, _, _)
SweepKids(kids, g, j) ==
    IF j > Len(kids) THEN kids
    ELSE IF kids[j].gen < g THEN SweepKids(RemoveAt(kids, j), g, j)
    ELSE SweepKids(kids, g, j + 1)

\* a sweep that looks at the depth-0 rows only
RECURSIVE SweepRootsOnly(_, _, _)
SweepRootsOnly(t, g, i) ==
    IF i > Len(t) THEN t
    ELSE IF t[i].gen < g THEN SweepRootsOnly(RemoveAt(t, i), g, i)
    ELSE SweepRootsOnly(t, g, i + 1)

\* a sweep that steps to the next row after each removal of a depth-0 row
RECURSIVE SweepSkipsSibling(_, _, _)
SweepSkipsSibling(t, g, i) ==
    IF i > Len(t) THEN t
    ELSE LET t1 == [t EXCEPT ![i].kids = SweepKids(t[i].kids, g, 1)]
         IN  IF t1[i].gen < g THEN SweepSkipsSibling(RemoveAt(t1, i), g, i + 1)
             ELSE SweepSkipsSibling(t1, g, i + 1)

\* main.c:635-655
RECURSIVE Sweep(_, _, _)
Sweep(t, g, i) ==
    IF i > Len(t) THEN t
    ELSE LET t1 == [t EXCEPT ![i].kids = SweepKids(t[i].kids, g, 1)]
         IN  IF t1[i].gen < g THEN Sweep(RemoveAt(t1, i), g, i)
             ELSE Sweep(t1, g, i + 1)

\* query_devices of the immediate variant (main.c:462-658) on tree t with
\* gds->generation already incremented to g and devices the queried array
query_devices(t, g, devices) ==
    LET a == MastersPass(t, g, devices, 1)
        b == FloatingPass(a, g, ID_FLOATING)
        c == SlavesPass([t |-> b, ub |-> FALSE], g, devices, 1)
    IN  [t |-> Sweep(c.t, g, 1), ub |-> c.ub]

\* the tree of the immediate variant as the three loops of query_devices
\* leave it (main.c:496-628), before the rows of older generations go
Marked(t, g, devices) ==
    SlavesPass([t |-> FloatingPass(MastersPass(t, g, devices, 1), g, ID_FLOATING),
                ub |-> FALSE], g, devices, 1).t

\* main.c:1361-1411: the staged variant's loop over the slaves looks for a
\* depth-0 row with the slave's own id and leaves the loop (line 1409)
\* after the first device that is no master
SlavesPassStaged(st, g, devices) ==
    LET k == First({n \in 1..Len(devices) : ~IsMasterUse(devices[n].use)})
        i == IF k = 0 THEN 0 ELSE RootIndex(st.t, devices[k].deviceid)
    IN  IF i = 0 THEN st ELSE AttachKid(st, g, devices[k], i)

\* query_devices of the staged variant (main.c:1243-1441)
query_devices_staged(t, g, devices) ==
    LET a == MastersPass(t, g, devices, 1)
        b == FloatingPass(a, g, XIFloatingSlave)
        c == SlavesPassStaged([t |-> b, ub |-> FALSE], g, devices)
    IN  [t |-> Sweep(c.t, g, 1), ub |-> c.ub]

\* Xlib sends its output buffer: the server carries out the requests one
\* after the other; ok tells that none of them raised an X error
RECURSIVE ServerFlush(_, _, _)
ServerFlush(s, buf, i) ==
    IF i > Len(buf) THEN [s |-> s, ok |-> TRUE]
    ELSE LET r == ServerChange(s, buf[i])
             rest == ServerFlush(r.s, buf, i + 1)
         IN  [s |-> rest.s, ok |-> r.ok /\ rest.ok]

(***************************************************************************)
(* Rows the user can point at: <<i>> is the i-th depth-0 row, <<i, j>> its *)
(* j-th child.                                                             *)
(***************************************************************************)
Paths(t) ==
    {<<i>> : i \in 1..Len(t)} \cup
    UNION {{<<i, j>> : j \in 1..Len(t[i].kids)} : i \in 1..Len(t)}

RowAt(t, p) == IF Len(p) = 1 THEN t[p[1]] ELSE t[p[1]].kids[p[2]]

(***************************************************************************)
(* Initial states: main's GDeviceSetup gds = {NULL, NULL, NULL, NULL, 0}   *)
(* and a server that holds the two core masters and some other devices.    *)
(***************************************************************************)
Core == <<[id |-> VCP, kind |-> "mp", att |-> VCK],
          [id |-> VCK, kind |-> "mk", att |-> VCP]>>

InitSrvs ==
    {Core \o <<[id |-> 9, kind |-> "ptr", att |-> VCP]>>,
     Core \o <<[id |-> 9, kind |-> "ptr", att |-> 0],
               [id |-> 5, kind |-> "kbd", att |-> VCK]>>,
     Core \o <<[id |-> 9, kind |-> "ptr", att |-> 0],
               [id |-> 5, kind |-> "mp", att |-> 6],
               [id |-> 6, kind |-> "mk", att |-> 5]>>}

NoEvent == [h |-> "none", req |-> <<>>, q |-> FALSE, sent |-> <<>>, ok |-> TRUE]

Event(h, req, q) == [h |-> h, req |-> req, q |-> q, sent |-> <<>>, ok |-> TRUE]

\* the event e with sent, the requests that reached the server while it was
\* handled, and ok, FALSE when the server answered one of them with an error
Outcome(e, sent, ok) == [e EXCEPT !.sent = sent, !.ok = ok]

Init ==
    /\ variant \in {"immediate", "staged"}
    /\ pc = "start"
    /\ srv \in InitSrvs
    /\ outbuf = <<>>
    /\ tree = <<>>
    /\ generation = 0
    /\ changes = <<>>
    /\ devs = <<>>
    /\ ev = NoEvent
    /\ sensitive = TRUE
    /\ envSteps = 0

(***************************************************************************)
(* Events of the server that the program does not cause: a device is       *)
(* plugged in or removed, another client changes the hierarchy.            *)
(***************************************************************************)
EnvRequests ==
    {AddReq}
    \cup {DetachReq(id) : id \in ExtraIds}
    \cup {AttachReq(id, to) : id \in ExtraIds, to \in DevIds}
    \cup {RemoveReqAttach(id) : id \in ExtraIds}

EnvPlug ==
    /\ pc \in {"start", "loop"}
    /\ envSteps < MaxEnv
    /\ \E id \in ExtraIds \ SrvIds(srv) :
          srv' = Append(srv, [id |-> id, kind |-> SlaveKind(id),
                              att |-> IF SlaveKind(id) = "ptr" THEN VCP ELSE VCK])
    /\ envSteps' = envSteps + 1
    /\ UNCHANGED <<variant, pc, outbuf, tree, generation, changes, devs,
                   ev, sensitive>>

EnvUnplug ==
    /\ pc \in {"start", "loop"}
    /\ envSteps < MaxEnv
    /\ \E i \in 1..Len(srv) :
          /\ ~IsMasterDev(srv[i])
          /\ srv' = RemoveAt(srv, i)
    /\ envSteps' = envSteps + 1
    /\ UNCHANGED <<variant, pc, outbuf, tree, generation, changes, devs,
                   ev, sensitive>>

EnvChange ==
    /\ pc \in {"start", "loop"}
    /\ envSteps < MaxEnv
    /\ \E c \in EnvRequests :
          /\ ServerChange(srv, c).ok
          /\ srv' = ServerChange(srv, c).s
    /\ srv' # srv
    /\ envSteps' = envSteps + 1
    /\ UNCHANGED <<variant, pc, outbuf, tree, generation, changes, devs,
                   ev, sensitive>>

\* the device lists one event of the kinds above makes of s
EnvSucc(s) ==
    {Append(s, [id |-> id, kind |-> SlaveKind(id),
                att |-> IF SlaveKind(id) = "ptr" THEN VCP ELSE VCK]) :
        id \in ExtraIds \ SrvIds(s)}
    \cup {RemoveAt(s, i) : i \in {n \in 1..Len(s) : ~IsMasterDev(s[n])}}
    \cup {ServerChange(s, c).s : c \in {r \in EnvRequests : ServerChange(s, r).ok}}

RECURSIVE EnvReach(_, _)
EnvReach(S, n) ==
    IF n = 0 THEN S ELSE EnvReach(S \cup UNION {EnvSucc(s) : s \in S}, n - 1)

\* several such events between two events of the dialog: the program does
\* not listen to hierarchy events, it sees their sum at its next pass
OtherClients ==
    /\ pc \in {"start", "loop"}
    /\ envSteps < MaxEnv
    /\ srv' \in EnvReach({srv}, MaxBurst) \ {srv}
    /\ envSteps' = envSteps + 1
    /\ UNCHANGED <<variant, pc, outbuf, tree, generation, changes, devs,
                   ev, sensitive>>

\* a pass that leaves gds->generation as it is
QueryKeepsCounter(s) ==
    /\ generation < MaxGen
    /\ generation' = generation
    /\ envSteps' = 0
    /\ \E fa \in [FloatingIds(s) -> FloatAttVals] :
          LET r == IF variant = "immediate"
                   THEN query_devices(tree, generation + 1, XIQueryDevice(s, fa))
                   ELSE query_devices_staged(tree, generation + 1,
                                             XIQueryDevice(s, fa))
          IN  /\ devs' = XIQueryDevice(s, fa)
              /\ \/ tree' = r.t /\ pc' = "handled"
                 \/ r.ub /\ tree' = tree /\ pc' = "abort"

(***************************************************************************)
(* query_devices as a step of a handler: s is the server's device list     *)
(* when XIQueryDevice is answered.  The call at line 599 lacks the -1 that *)
(* ends the argument list of gtk_tree_model_get, so once it runs the pass  *)
(* either goes on (the next word read is no column) or the process dies.   *)
(***************************************************************************)
Query(s) ==
    /\ generation < MaxGen
    /\ generation' = generation + 1
    /\ envSteps' = 0
    /\ \E fa \in [FloatingIds(s) -> FloatAttVals] :
          LET r == IF variant = "immediate"
                   THEN query_devices(tree, generation + 1, XIQueryDevice(s, fa))
                   ELSE query_devices_staged(tree, generation + 1,
                                             XIQueryDevice(s, fa))
          IN  /\ devs' = XIQueryDevice(s, fa)
              /\ \/ tree' = r.t /\ pc' = "handled"
                 \/ r.ub /\ tree' = tree /\ pc' = "abort"

NoQuery ==
    /\ pc' = "handled"
    /\ UNCHANGED <<tree, generation, devs, envSteps>>

\* a start that leaves the buttons as gtk_dialog_add_buttons made them
StartupButtonsLeft ==
    /\ pc = "start"
    /\ sensitive' = sensitive
    /\ ev' = Event("main", <<>>, TRUE)
    /\ Query(srv)
    /\ UNCHANGED <<variant, srv, outbuf, changes>>

\* main.c:712-745: toggle_undo_button(&gds, FALSE), then get_tree_view
Startup ==
    /\ pc = "start"
    /\ sensitive' = FALSE
    /\ ev' = Event("main", <<>>, TRUE)
    /\ Query(srv)
    /\ UNCHANGED <<variant, srv, outbuf, changes>>

\* The staged variant's handlers issue their requests into Xlib's buffer:
\* XFlush sends it, and XIQueryDevice, which waits for a reply, reads the
\* X errors of the requests sent.  No error trap is set, so an error ends
\* the process; gds->generation++ (main.c:1272) has run by then.
FlushAndQuery(buf) ==
    LET f == ServerFlush(srv, buf, 1)
    IN  /\ outbuf' = <<>>
        /\ srv' = f.s
        /\ IF f.ok THEN Query(f.s)
           ELSE /\ pc' = "abort"
                /\ generation' = generation + 1
                /\ UNCHANGED <<tree, devs, envSteps>>

\* the handler returns and gtk_dialog_run waits for the next event
Return ==
    /\ pc = "handled"
    /\ pc' = "loop"
    /\ ev' = NoEvent
    /\ UNCHANGED <<variant, srv, outbuf, tree, generation, changes, devs,
                   sensitive, envSteps>>

\* main.c:802-806 and main.c:1579-1583: the loop is left; XCloseDisplay
\* sends what Xlib's buffer still holds.  g_list_free leaves gds.changes as
\* it is.
Leave ==
    /\ pc' = "exit"
    /\ srv' = ServerFlush(srv, outbuf, 1).s
    /\ outbuf' = <<>>
    /\ UNCHANGED <<variant, tree, generation, changes, devs, sensitive,
                   envSteps>>

\* main.c:780-795 and main.c:1553-1568: GTK_RESPONSE_CLOSE.  With changes
\* in the list the question "Are you sure you want to quit?" is asked:
\* "close_yes" and "close_no" are its answers.
close_response ==
    /\ pc = "loop"
    /\ \/ /\ changes = <<>>
          /\ ev' = Event("close", <<>>, FALSE)
          /\ Leave
       \/ /\ changes # <<>>
          /\ ev' = Event("close_yes", <<>>, FALSE)
          /\ Leave
       \/ /\ changes # <<>>
          /\ ev' = Event("close_no", <<>>, FALSE)
          /\ pc' = "handled"
          /\ UNCHANGED <<variant, srv, outbuf, tree, generation, changes,
                         devs, sensitive, envSteps>>

\* main.c:796-798 and main.c:1573-1575: GTK_RESPONSE_DELETE_EVENT
delete_event ==
    /\ pc = "loop"
    /\ ev' = Event("delete", <<>>, FALSE)
    /\ Leave

(***************************************************************************)
(* The immediate variant's handlers (main.c:1-807)                         *)
(***************************************************************************)
\* a handler that takes the row under the pointer for the new master
DropTargetRowItself(t, dest) == RowAt(t, dest).id

\* main.c:226-239: COL_ID of final_parent, the row dest when it has no
\* parent and its parent otherwise
DropTarget(t, dest) == t[dest[1]].id

\* the event e of a drop, with the selected row and the row under the
\* pointer as the handler read them
Dropped(e, t, sel, dest) ==
    [h |-> e.h, req |-> e.req, q |-> e.q, sent |-> e.sent, ok |-> e.ok,
     drag |-> [id |-> RowAt(t, sel).id, use |-> RowAt(t, sel).use],
     drop |-> [id |-> RowAt(t, dest).id, depth |-> Len(dest) - 1,
               parent |-> t[dest[1]].id]]

\* signal_dnd_recv, main.c:188-254: row sel is dropped onto row dest
signal_dnd_recv_imm ==
    /\ variant = "immediate" /\ pc = "loop"
    /\ \E sel \in Paths(tree), dest \in Paths(tree) :
          LET id == RowAt(tree, sel).id
              use == RowAt(tree, sel).use
              md_id == DropTarget(tree, dest)
              c == IF md_id = ID_FLOATING THEN DetachReq(id)
                   ELSE AttachReq(id, md_id)
              r == ServerChange(srv, c)
          IN  IF MasterSelected(use)
              THEN /\ ev' = Dropped(Event("dnd", <<>>, FALSE), tree, sel, dest)
                   /\ NoQuery
                   /\ UNCHANGED <<srv, sensitive>>
              ELSE /\ ev' = Dropped(Outcome(Event("dnd", <<c>>, r.ok), <<c>>, r.ok),
                                    tree, sel, dest)
                   /\ srv' = r.s
                   /\ IF r.ok
                      THEN Query(r.s) /\ sensitive' = TRUE
                      ELSE NoQuery /\ UNCHANGED sensitive
    /\ UNCHANGED <<variant, outbuf, changes>>

\* signal_new_md, main.c:306-350, answered with OK
signal_new_md_imm ==
    /\ variant = "immediate" /\ pc = "loop"
    /\ ev' = Outcome(Event("new_md", <<AddReq>>, TRUE), <<AddReq>>,
                      ServerChange(srv, AddReq).ok)
    /\ srv' = ServerChange(srv, AddReq).s
    /\ Query(srv')
    /\ UNCHANGED <<variant, outbuf, changes, sensitive>>

\* signal_button_press, main.c:379-427, and signal_popup_activate,
\* main.c:355-373: a right click on row p, then "Remove" when the item is
\* sensitive
signal_popup_imm ==
    /\ variant = "immediate" /\ pc = "loop"
    /\ \E p \in Paths(tree) :
          LET id == RowAt(tree, p).id
              use == RowAt(tree, p).use
          IN  /\ IsMasterUse(use)
              /\ IF id = 2 \/ id = 3
                 THEN /\ ev' = Event("popup", <<>>, FALSE)
                      /\ NoQuery
                      /\ UNCHANGED srv
                 ELSE /\ ev' = Outcome(Event("popup", <<RemoveReqAttach(id)>>, TRUE),
                                        <<RemoveReqAttach(id)>>,
                                        ServerChange(srv, RemoveReqAttach(id)).ok)
                      /\ srv' = ServerChange(srv, RemoveReqAttach(id)).s
                      /\ Query(srv')
    /\ UNCHANGED <<variant, outbuf, changes, sensitive>>

\* an undo that runs the statements commented out at main.c:774-777
undo_queries ==
    /\ variant = "immediate" /\ pc = "loop"
    /\ sensitive' = FALSE
    /\ ev' = Event("undo", <<>>, TRUE)
    /\ Query(srv)
    /\ changes' = <<>>
    /\ UNCHANGED <<variant, srv, outbuf>>

\* main.c:772-779: GTK_RESPONSE_CANCEL
undo_imm ==
    /\ variant = "immediate" /\ pc = "loop"
    /\ sensitive' = FALSE
    /\ ev' = Event("undo", <<>>, FALSE)
    /\ NoQuery
    /\ UNCHANGED <<variant, srv, outbuf, changes>>

(***************************************************************************)
(* The staged variant's handlers (main.c:809-1584)                         *)
(***************************************************************************)
\* XIChangeHierarchy's return value, which change_attachment (main.c:893-904)
\* returns and signal_dnd_recv appends to gds->changes as the list's data
Success == 0

\* main.c:1013-1029: a new child row with the id, name and use of the
\* dragged row is inserted under depth-0 row dest[1], before or after the
\* row dropped onto, and the dragged row is removed
DndMove(t, g, sel, dest, after) ==
    LET P == dest[1]
        sib == IF Len(dest) = 2 THEN dest[2] ELSE 0
        at == IF after THEN sib + 1
              ELSE IF sib = 0 THEN Len(t[P].kids) + 1 ELSE sib
        row == [id |-> RowAt(t, sel).id, name |-> RowAt(t, sel).name,
                use |-> RowAt(t, sel).use, gen |-> 0, born |-> g]
        t1 == [t EXCEPT ![P].kids = InsertAt(t[P].kids, at, row)]
    IN  IF Len(sel) = 1 THEN RemoveAt(t1, sel[1])
        ELSE IF sel[1] = P /\ at <= sel[2]
             THEN [t1 EXCEPT ![P].kids = RemoveAt(t1[P].kids, sel[2] + 1)]
             ELSE [t1 EXCEPT ![sel[1]].kids = RemoveAt(t1[sel[1]].kids, sel[2])]

\* main.c:1005-1011
DndRejected(use, md_use) ==
    /\ md_use # XIFloatingSlave
    /\ \/ use = XISlavePointer /\ md_use # XIMasterPointer
       \/ use = XISlaveKeyboard /\ md_use # XIMasterKeyboard

\* signal_dnd_recv, main.c:950-1036
signal_dnd_recv_stg ==
    /\ variant = "staged" /\ pc = "loop"
    /\ \E sel \in Paths(tree), dest \in Paths(tree), after \in BOOLEAN :
          LET id == RowAt(tree, sel).id
              use == RowAt(tree, sel).use
              md_id == tree[dest[1]].id
              md_use == tree[dest[1]].use
          IN  IF MasterSelected(use) \/ DndRejected(use, md_use)
              THEN /\ ev' = Event("dnd", <<>>, FALSE)
                   /\ UNCHANGED <<tree, outbuf, changes, sensitive>>
              ELSE /\ Len(changes) < MaxChanges
                   /\ ev' = Event("dnd", <<AttachReq(id, md_id)>>, FALSE)
                   /\ tree' = DndMove(tree, generation, sel, dest, after)
                   /\ outbuf' = Append(outbuf, AttachReq(id, md_id))
                   /\ changes' = Append(changes, Success)
                   /\ sensitive' = TRUE
    /\ pc' = "handled"
    /\ UNCHANGED <<variant, srv, generation, devs, envSteps>>

\* gtk_dialog_run (main.c:1542) runs the main loop, whose X event source
\* calls XPending, and XPending sends Xlib's output buffer: the requests
\* that change_attachment (main.c:902) left there reach the server while
\* the program waits for the next event.  An X error ends the process.
XlibFlush ==
    /\ variant = "staged" /\ pc = "loop"
    /\ outbuf # <<>>
    /\ outbuf' = <<>>
    /\ srv' = ServerFlush(srv, outbuf, 1).s
    /\ pc' = IF ServerFlush(srv, outbuf, 1).ok THEN "loop" ELSE "abort"
    /\ UNCHANGED <<variant, tree, generation, changes, devs, ev, sensitive,
                   envSteps>>

\* main.c:1547-1552: GTK_RESPONSE_CANCEL
cancel_stg ==
    /\ variant = "staged" /\ pc = "loop"
    /\ ev' = Outcome(Event("cancel", <<>>, TRUE), outbuf,
                      ServerFlush(srv, outbuf, 1).ok)
    /\ FlushAndQuery(outbuf)
    /\ changes' = <<>>
    /\ sensitive' = FALSE
    /\ UNCHANGED variant

\* an apply that runs query_devices whatever the list holds
apply_queries_always ==
    /\ variant = "staged" /\ pc = "loop"
    /\ ev' = Event("apply", <<>>, TRUE)
    /\ sensitive' = FALSE
    /\ Query(srv)
    /\ UNCHANGED <<variant, srv, outbuf, changes>>

\* main.c:1569-1572 and apply, main.c:1042-1082: GTK_RESPONSE_APPLY.  With
\* an empty list apply returns at once, and so it does when malloc fails;
\* otherwise line 1072 reads through it->data, which is the integer that
\* change_attachment returned and no pointer to a change.
apply_stg ==
    /\ variant = "staged" /\ pc = "loop"
    /\ ev' = Event("apply", <<>>, FALSE)
    /\ \/ /\ changes = <<>>
          /\ pc' = "handled"
          /\ sensitive' = FALSE
       \/ /\ changes # <<>>
          /\ pc' = "handled"
          /\ sensitive' = FALSE
       \/ /\ changes # <<>>
          /\ pc' = "abort"
          /\ UNCHANGED sensitive
    /\ UNCHANGED <<variant, srv, outbuf, tree, generation, changes, devs,
                   envSteps>>

\* signal_new_md, main.c:1088-1132, answered with OK: create_master,
\* main.c:926-937, then query_devices
signal_new_md_stg ==
    /\ variant = "staged" /\ pc = "loop"
    /\ ev' = Outcome(Event("new_md", <<AddReq>>, TRUE), Append(outbuf, AddReq),
                      ServerFlush(srv, Append(outbuf, AddReq), 1).ok)
    /\ FlushAndQuery(Append(outbuf, AddReq))
    /\ UNCHANGED <<variant, changes, sensitive>>

\* signal_button_press, main.c:1161-1208, and signal_popup_activate,
\* main.c:1137-1155
signal_popup_stg ==
    /\ variant = "staged" /\ pc = "loop"
    /\ \E p \in Paths(tree) :
          LET id == RowAt(tree, p).id
              use == RowAt(tree, p).use
          IN  /\ IsMasterUse(use) \/ use = XIFloatingSlave
              /\ IF id < 2 \/ use = XIFloatingSlave
                 THEN /\ ev' = Event("popup", <<>>, FALSE)
                      /\ NoQuery
                      /\ UNCHANGED <<srv, outbuf>>
                 ELSE /\ ev' = Outcome(Event("popup", <<RemoveReqFloat(id)>>, TRUE),
                                        Append(outbuf, RemoveReqFloat(id)),
                                        ServerFlush(srv, Append(outbuf, RemoveReqFloat(id)), 1).ok)
                      /\ FlushAndQuery(Append(outbuf, RemoveReqFloat(id)))
    /\ UNCHANGED <<variant, changes, sensitive>>

(***************************************************************************)
(* Specifications: Spec runs either variant, SpecImm the immediate one,    *)
(* SpecStg the staged one.                                                 *)
(***************************************************************************)
Shared ==
    \/ EnvPlug \/ EnvUnplug \/ EnvChange \/ Startup \/ Return
    \/ close_response \/ delete_event

ImmHandlers ==
    \/ signal_dnd_recv_imm
    \/ signal_new_md_imm
    \/ signal_popup_imm
    \/ undo_imm

StgHandlers ==
    \/ signal_dnd_recv_stg
    \/ cancel_stg
    \/ apply_stg
    \/ signal_new_md_stg
    \/ signal_popup_stg
    \/ XlibFlush

Next == Shared \/ ImmHandlers \/ StgHandlers

NextImm == Shared \/ ImmHandlers

NextStg == Shared \/ StgHandlers

Spec == Init /\ [][Next]_vars

InitImm == Init /\ variant = "immediate"

InitStg == Init /\ variant = "staged"

SpecImm == InitImm /\ [][NextImm]_vars

SpecStg == InitStg /\ [][NextStg]_vars

\* the immediate variant in a session where no other client changes the
\* hierarchy
NextQuiet == Startup \/ Return \/ ImmHandlers

SpecQuiet == InitImm /\ [][NextQuiet]_vars

\* the immediate variant in a session where other clients change the
\* hierarchy several times between two events of the dialog
NextBurst == Startup \/ Return \/ OtherClients \/ signal_new_md_imm \/ signal_popup_imm

SpecBurst == InitImm /\ [][NextBurst]_vars

(***************************************************************************)
(* Vocabulary of the properties                                            *)
(***************************************************************************)
\* a handler has just run query_devices to its end
AfterPass == pc = "handled" /\ ev.q

Kids(t) == UNION {Range(t[i].kids) : i \in 1..Len(t)}

\* the ids held by the rows of the tree, the Floating row left out
TreeIds(t, fid) ==
    {t[i].id : i \in {n \in 1..Len(t) : t[n].id # fid}}
    \cup {k.id : k \in Kids(t)}

ListIds(devices) == {devices[i].deviceid : i \in 1..Len(devices)}

\* the indices of the depth-0 rows that have a child with the id
ParentsOf(t, id) == {i \in 1..Len(t) : KidIndex(t[i].kids, id) # 0}

Stamps(t) == {t[i].gen : i \in 1..Len(t)} \cup {k.gen : k \in Kids(t)}

(***************************************************************************)
(* C1  Mark and sweep: after a pass of query_devices the ids held by the   *)
(* rows of the tree, the Floating row left out, are exactly the ids of the *)
(* queried list, and the Floating row is the last depth-0 row.             *)
(***************************************************************************)
C1_MarkSweepExact ==
    (variant = "immediate" /\ AfterPass) =>
        /\ TreeIds(tree, ID_FLOATING) = ListIds(devs)
        /\ Len(tree) > 0
        /\ tree[Len(tree)].id = ID_FLOATING

(***************************************************************************)
(* C2  Floating singleton: after a pass exactly one row has the Floating   *)
(* id, it is a depth-0 row, and it stands after every master row, however  *)
(* many floating slaves the list holds.                                    *)
(***************************************************************************)
C2_FloatingSingleton ==
    (variant = "immediate" /\ AfterPass) =>
        /\ Cardinality({i \in 1..Len(tree) : tree[i].id = ID_FLOATING}) = 1
        /\ \A k \in Kids(tree) : k.id # ID_FLOATING
        /\ \A i \in 1..Len(tree) :
              IsMasterUse(tree[i].use) => i < RootIndex(tree, ID_FLOATING)

NumFloating(devices) ==
    Cardinality({i \in 1..Len(devices) : devices[i].use = XIFloatingSlave})

C2_Witness ==
    /\ variant = "immediate" /\ AfterPass
    /\ NumFloating(devs) >= 1
    /\ generation >= 2
    /\ \E i \in 1..Len(tree) :
          IsMasterUse(tree[i].use) /\ tree[i].born = generation
    /\ tree[Len(tree)].born < generation

(***************************************************************************)
(* C3  After a pass every row of the tree, master, slave or Floating,      *)
(* carries the current value of the generation counter.                    *)
(***************************************************************************)
C3_AllStampedCurrent ==
    (variant = "immediate" /\ AfterPass) => Stamps(tree) = {generation}

C3_Witness ==
    /\ variant = "immediate" /\ AfterPass
    /\ ev.h = "popup" /\ Len(ev.req) = 1
    /\ ev.req[1].deviceid \notin TreeIds(tree, ID_FLOATING)
    /\ \E k \in Kids(tree) : k.born < generation

(***************************************************************************)
(* C4  After a pass each attached slave of the list is a child of the      *)
(* depth-0 row whose id is its attachment, and each floating slave is a    *)
(* child of the Floating row and of no master row, whatever its attachment *)
(* field holds.                                                            *)
(***************************************************************************)
C4_SlaveUnderReportedParent ==
    (variant = "immediate" /\ AfterPass) =>
        \A n \in 1..Len(devs) :
            LET d == devs[n]
                want == IF d.use = XIFloatingSlave THEN ID_FLOATING
                        ELSE d.attachment
            IN  ~IsMasterUse(d.use) =>
                    /\ ParentsOf(tree, d.deviceid) # {}
                    /\ \A i \in ParentsOf(tree, d.deviceid) : tree[i].id = want

(***************************************************************************)
(* C5  In every state the depth-0 rows are master rows or the Floating     *)
(* row, and the child rows carry a slave use: no master is a child, no     *)
(* slave a depth-0 row.  (Rows hold children and children hold none: the   *)
(* handlers append under no row but a depth-0 one.)                        *)
(***************************************************************************)
SlaveUses == {XISlavePointer, XISlaveKeyboard, XIFloatingSlave}

IsFloatingRow(r) ==
    /\ r.id = FloatingId(variant)
    /\ r.use = FloatingId(variant)
    /\ r.name = "Floating"

Instances(t) ==
    {<<t[i].id, t[i].born>> : i \in 1..Len(t)}
    \cup {<<k.id, k.born>> : k \in Kids(t)}

\* this step is a pass of the immediate variant's query_devices that
\* follows an earlier pass
SecondPass ==
    /\ variant = "immediate"
    /\ generation >= 1
    /\ generation' = generation + 1
    /\ pc' = "handled"

NoGenKids(kids) ==
    [j \in 1..Len(kids) |->
        [id |-> kids[j].id, name |-> kids[j].name, use |-> kids[j].use,
         born |-> kids[j].born]]

\* a tree without its stamps
NoGen(t) ==
    [i \in 1..Len(t) |->
        [id |-> t[i].id, name |-> t[i].name, use |-> t[i].use,
         born |-> t[i].born, kids |-> NoGenKids(t[i].kids)]]

\* the tree after one more pass over the list of the last pass
Again == query_devices(tree, generation + 1, devs).t

ScenarioList ==
    <<[deviceid |-> 2, name |-> "mp", use |-> XIMasterPointer, attachment |-> 3],
      [deviceid |-> 3, name |-> "mk", use |-> XIMasterKeyboard, attachment |-> 2],
      [deviceid |-> 9, name |-> "ptr", use |-> XISlavePointer, attachment |-> 2]>>

\* the first pass of the session ran on the scenario's list
ScenarioDone ==
    /\ variant = "immediate" /\ AfterPass
    /\ ev.h = "main"
    /\ devs = ScenarioList

Shape(t) == [i \in 1..Len(t) |-> <<t[i].id, [j \in 1..Len(t[i].kids) |-> t[i].kids[j].id]>>]

C8_Scenario ==
    ScenarioDone =>
        /\ Shape(tree) = <<<<2, <<9>>>>, <<3, <<>>>>, <<ID_FLOATING, <<>>>>>>
        /\ Shape(Again) = Shape(tree)
        /\ NoGen(Again) = NoGen(tree)
        /\ Stamps(tree) = {generation}
        /\ Stamps(Again) = {generation + 1}

C8_Witness == ScenarioDone /\ Len(tree) = 3

(***************************************************************************)
(* C9  Order independence: a pass over any permutation of the list.        *)
(***************************************************************************)
\* the longest list: every id of DevIds reported
MaxList == Cardinality(DevIds)

AllPerms ==
    [n \in 0..MaxList |->
        {p \in [1..n -> 1..n] : \A i, j \in 1..n : i # j => p[i] # p[j]}]

Perms(n) == AllPerms[n]

Reordered(l, p) == [i \in 1..Len(l) |-> l[p[i]]]

\* this step is a pass of the immediate variant's query_devices
PassStep ==
    /\ variant = "immediate"
    /\ generation' = generation + 1
    /\ pc' = "handled"

\* the claim as made: every permutation of the list gives the same tree,
\* sibling order included
C9_SameTreeAnyOrder ==
    [][PassStep =>
          \A p \in Perms(Len(devs')) :
              query_devices(tree, generation', Reordered(devs', p)).t = tree']_vars

\* every row with the id of the row above it (0 above a depth-0 row)
Placement(t) ==
    {<<0, t[i].id, t[i].name, t[i].use, t[i].gen, t[i].born>> : i \in 1..Len(t)}
    \cup UNION {{<<t[i].id, k.id, k.name, k.use, k.gen, k.born>> : k \in Range(t[i].kids)}
                   : i \in 1..Len(t)}

ListPos(l, id) == First({n \in 1..Len(l) : l[n].deviceid = id})

\* siblings rows: those a pass found (born before g) stand first, in the
\* order they have in was, those it created follow in the order of list l
InListOrder(rows, was, l, g) ==
    \A a, b \in 1..Len(rows) : a < b =>
        /\ ~(rows[a].born = g /\ rows[b].born < g)
        /\ (rows[a].born < g /\ rows[b].born < g) =>
               KidIndex(was, rows[a].id) < KidIndex(was, rows[b].id)
        /\ (rows[a].born = g /\ rows[b].born = g) =>
               ListPos(l, rows[a].id) < ListPos(l, rows[b].id)

\* as amended: every permutation gives the same rows under the same
\* parents; the rows the pass found keep their order, the rows it created
\* follow them in list order, and the Floating row is last
RowsInListOrder(r, was, l, g) ==
    /\ r[Len(r)].id = ID_FLOATING
    /\ InListOrder(SubSeq(r, 1, Len(r) - 1), was, l, g)
    /\ \A i \in 1..Len(r) :
          LET o == RootIndex(was, r[i].id)
          IN  InListOrder(r[i].kids, IF o = 0 THEN <<>> ELSE was[o].kids, l, g)

C9_SameRowsAnyOrder ==
    [][PassStep =>
          \A p \in Perms(Len(devs')) :
              \A l \in {Reordered(devs', p)} :
                  \A r \in {query_devices(tree, generation', l).t} :
                      /\ Placement(r) = Placement(tree')
                      /\ RowsInListOrder(r, tree, l, generation')]_vars

C9_Witness ==
    /\ variant = "immediate" /\ AfterPass
    /\ ev.h = "new_md"
    /\ generation >= 2
    /\ Cardinality({i \in 1..Len(tree) : tree[i].born = generation}) = 2

(***************************************************************************)
(* C10  A remove request for a reserved master, id 2 or 3, never makes a   *)
(* handler issue a hierarchy change.                                       *)
(***************************************************************************)
C10_ReservedNeverRemoved ==
    \A n \in 1..Len(ev.req) :
        ev.req[n].type = "remove" => ev.req[n].deviceid \notin {VCP, VCK}

(***************************************************************************)
(* C11  A drag-and-drop handler issues no attach request for a slave and   *)
(* a master of the other class: a pointer onto a master keyboard, a        *)
(* keyboard onto a master pointer.                                         *)
(***************************************************************************)
Mismatch(dev, master) ==
    \/ dev.kind = "ptr" /\ master.kind = "mk"
    \/ dev.kind = "kbd" /\ master.kind = "mp"

C11_MismatchNeverIssued ==
    ev.h = "dnd" =>
        \A n \in 1..Len(ev.req) :
            (/\ ev.req[n].type = "attach"
             /\ ev.req[n].deviceid \in SrvIds(srv)
             /\ ev.req[n].new_master \in SrvIds(srv))
            => ~Mismatch(SrvDev(srv, ev.req[n].deviceid),
                         SrvDev(srv, ev.req[n].new_master))

(***************************************************************************)
(* C12  Staged variant: the step that handles Cancel leaves the server's   *)
(* hierarchy as it was and empties the list of changes.                    *)
(***************************************************************************)
C12_CancelLeavesServer ==
    [][(variant = "staged" /\ ev'.h = "cancel") =>
          /\ srv' = srv
          /\ changes' = <<>>]_vars

(***************************************************************************)
(* C13  Staged variant: the drag-and-drop handler issues no                *)
(* hierarchy-change request; it only adds to the list of changes.          *)
(***************************************************************************)
C13_StagingIssuesNothing ==
    (variant = "staged" /\ ev.h = "dnd") => ev.req = <<>>

(***************************************************************************)
(* C14  The tree changes only in a step that queries the server: a step    *)
(* that leaves the generation counter alone leaves the tree alone.         *)
(***************************************************************************)
C14_TreeOnlyFromQuery ==
    [][generation' = generation => tree' = tree]_vars

(***************************************************************************)
(* C15  Immediate variant: a handler that issued a hierarchy change has    *)
(* run query_devices when it returns, whatever the server answered.        *)
(***************************************************************************)
C15_QueryAfterAttempt ==
    (variant = "immediate" /\ pc = "handled" /\ ev.req # <<>>) => ev.q

(***************************************************************************)
(* C16  The list of changes is empty at startup and when Apply or Cancel   *)
(* has been handled.                                                       *)
(***************************************************************************)
C16_BufferEmptyAfterApplyCancel ==
    /\ pc = "start" => changes = <<>>
    /\ (pc = "handled" /\ ev.h \in {"apply", "cancel"}) => changes = <<>>

(***************************************************************************)
(* C17  Staged variant: a change the list holds has not reached the        *)
(* server and is not in Xlib's buffer on its way there without being in    *)
(* the list: what Cancel discards was never sent, what Apply sends was     *)
(* never sent before.                                                      *)
(***************************************************************************)
C17_BufferedNotYetSent ==
    (variant = "staged" /\ pc = "handled" /\ ev.h \in {"apply", "cancel"}) =>
        /\ ev.h = "cancel" => ev.sent = <<>>
        /\ ev.h = "apply" => Len(ev.sent) = Len(ev.req)

(***************************************************************************)
(* C18  The step that handles Apply with changes in the list issues one    *)
(* request, empties the list and runs query_devices.                       *)
(***************************************************************************)
C18_ApplyIssuesBatch ==
    [][(ev'.h = "apply" /\ changes # <<>>) =>
          /\ pc' = "handled"
          /\ Len(ev'.req) = 1
          /\ changes' = <<>>
          /\ ev'.q]_vars

(***************************************************************************)
(* C19  An Apply with changes in the list that returns after no change     *)
(* reached the server does not end as a successful one does: it leaves     *)
(* the Apply and Cancel buttons sensitive.                                 *)
(***************************************************************************)
C19_NoSuccessWithZeroApplied ==
    [][(ev'.h = "apply" /\ changes # <<>> /\ pc' = "handled" /\ ev'.sent = <<>>)
          => sensitive']_vars

(***************************************************************************)
(* C20  A handler whose request the server answered with an error does     *)
(* not return to the event loop as after a success.                        *)
(***************************************************************************)
C20_FailureEntersError ==
    [][(pc = "handled" /\ ~ev.ok) => pc' # "loop"]_vars

(***************************************************************************)
(* C21  The session ends with changes in the list only after the question  *)
(* was asked and answered with yes; an answer of no keeps the session      *)
(* running.                                                                *)
(***************************************************************************)
C21_NoExitWithoutPrompt ==
    /\ (pc = "exit" /\ changes # <<>>) => ev.h = "close_yes"
    /\ ev.h = "close_no" => (pc = "handled" /\ changes # <<>>)

(***************************************************************************)
(* C22  Immediate variant: the step that removes master M, accepted by     *)
(* the server, and runs the pass leaves no row with id M, and every slave  *)
(* that was attached to M has a row under master 2 when it is a pointer    *)
(* and under master 3 when it is a keyboard.                               *)
(***************************************************************************)
RemovedMaster ==
    /\ variant = "immediate"
    /\ ev'.h = "popup" /\ Len(ev'.req) = 1 /\ ev'.ok
    /\ pc' = "handled"

C22_RemoveReturnsSlaves ==
    [][RemovedMaster =>
          LET M == ev'.req[1].deviceid
          IN  /\ M \notin TreeIds(tree', ID_FLOATING)
              /\ \A n \in 1..Len(srv) :
                    (~IsMasterDev(srv[n]) /\ srv[n].att = M) =>
                        ParentsOf(tree', srv[n].id)
                            = {RootIndex(tree', IF srv[n].kind = "ptr"
                                                THEN VCP ELSE VCK)}]_vars

C22_Witness ==
    /\ variant = "immediate" /\ AfterPass
    /\ ev.h = "popup" /\ Len(ev.req) = 1 /\ ev.ok
    /\ ev.req[1].deviceid \notin ListIds(devs)
    /\ \E k \in Range(tree[RootIndex(tree, VCP)].kids) : k.born = generation

(***************************************************************************)
(* C23  The sweep at the end of a pass leaves exactly the rows stamped with *)
(* the current generation, in their order: of the depth-0 rows those with   *)
(* the current stamp, and of their children those with the current stamp.   *)
(* No row is passed over after a removal, and no child outlives its parent. *)
(***************************************************************************)
Kept(t, g) ==
    LET roots == SelectSeq(t, LAMBDA r : r.gen >= g)
    IN  [i \in 1..Len(roots) |->
            [roots[i] EXCEPT !.kids = SelectSeq(roots[i].kids, LAMBDA k : k.gen >= g)]]

PassDone == variant = "immediate" /\ generation' = generation + 1 /\ pc' = "handled"

C23_SweepExact ==
    [][PassDone => tree' = Kept(Marked(tree, generation', devs'), generation')]_vars

C23_Witness ==
    /\ variant = "immediate" /\ AfterPass
    /\ ev.h = "popup" /\ Len(ev.req) = 1 /\ ev.ok
    /\ ev.req[1].deviceid \notin {VCP, VCK}
    /\ Len(tree) = 3

(***************************************************************************)
(* C24  An id that a pass finds in the tree with one role (master pointer, *)
(* master keyboard, slave) and in the list with another is deleted and     *)
(* created again: after the pass the only row with the id was created by   *)
(* this pass, carries the use of the list and stands at depth 0 for a      *)
(* master, at depth 1 for a slave.                                         *)
(***************************************************************************)
Role(use) == IF IsMasterUse(use) THEN use ELSE XISlavePointer

\* the rows of the tree but the Floating row, each with its depth
Rows(t) ==
    {[id |-> t[i].id, name |-> t[i].name, use |-> t[i].use, born |-> t[i].born,
      depth |-> 0] : i \in {n \in 1..Len(t) : t[n].id # ID_FLOATING}}
    \cup {[id |-> k.id, name |-> k.name, use |-> k.use, born |-> k.born,
           depth |-> 1] : k \in Kids(t)}

RoleChanged(t, devices) ==
    {d \in Range(devices) :
        \E r \in Rows(t) : r.id = d.deviceid /\ Role(r.use) # Role(d.use)}

C24_RoleChangeRecreates ==
    [][PassDone =>
          \A d \in RoleChanged(tree, devs') :
              \A r \in Rows(tree') :
                  r.id = d.deviceid =>
                      /\ r.born = generation'
                      /\ r.use = d.use
                      /\ r.depth = IF IsMasterUse(d.use) THEN 0 ELSE 1]_vars

(***************************************************************************)
(* C25  After a pass every row of a device of the list shows the name and  *)
(* the use the list reports for the device, the rows the pass found in the *)
(* tree included.                                                          *)
(***************************************************************************)
C25_RowsShowList ==
    (variant = "immediate" /\ AfterPass) =>
        \A r \in Rows(tree) : \A d \in Range(devs) :
            r.id = d.deviceid => (r.name = d.name /\ r.use = d.use)

(***************************************************************************)
(* C26  After a pass of the staged variant every slave of the list is a    *)
(* child of the depth-0 row whose id is its attachment, a floating slave a *)
(* child of the Floating row, and of no other row.                         *)
(***************************************************************************)
C26_StagedSlavesFiled ==
    (variant = "staged" /\ AfterPass) =>
        \A d \in Range(devs) :
            ~IsMasterUse(d.use) =>
                ParentsOf(tree, d.deviceid)
                    = {RootIndex(tree, IF d.use = XIFloatingSlave
                                       THEN XIFloatingSlave ELSE d.attachment)}

(***************************************************************************)
(* C27  gds->generation is 0 when the program starts; a step in which a    *)
(* handler runs query_devices adds exactly 1 to it, and every other step   *)
(* (staging a change, cancel, a rejected edit, apply with nothing staged,  *)
(* the end of the session, the events of other clients) leaves it as it    *)
(* is.  The counter is thus the number of passes begun since the start.    *)
(***************************************************************************)
C27_CounterCountsPasses ==
    /\ generation = 0
    /\ [][IF ev'.q /\ pc \in {"start", "loop"}
           THEN generation' = generation + 1
           ELSE generation' = generation]_vars

C27_Witness ==
    /\ pc = "handled" /\ ev.h \notin {"none", "main"} /\ ~ev.q
    /\ generation = 2

(***************************************************************************)
(* C28  When main has built the dialog and no event has been handled yet,  *)
(* query_devices has run once (gds->generation is 1), the list of staged   *)
(* changes is empty, nothing waits in Xlib's buffer, and the Undo button   *)
(* (immediate) or the Apply and Cancel buttons (staged) are insensitive.   *)
(***************************************************************************)
C28_AfterStartup ==
    ev.h = "main" =>
        /\ generation = 1
        /\ changes = <<>>
        /\ outbuf = <<>>
        /\ ~sensitive

C28_Witness ==
    /\ ev.h = "main" /\ pc = "handled"
    /\ Len(tree) >= 3
    /\ Stamps(tree) = {1}

(***************************************************************************)
(* C29  A drop in the immediate variant sends the server nothing when the  *)
(* selected row is a master, and one change otherwise.  The target is the  *)
(* row under the pointer when that is a depth-0 row and its parent when it *)
(* is a child; the change is the detaching of the selected device when the *)
(* target is the Floating row and its attaching to the target's id when it *)
(* is a master.                                                            *)
(***************************************************************************)
C29_DropSendsOneChange ==
    (variant = "immediate" /\ ev.h = "dnd") =>
        LET target == IF ev.drop.depth = 0 THEN ev.drop.id ELSE ev.drop.parent
        IN  ev.sent = IF IsMasterUse(ev.drag.use) THEN <<>>
                      ELSE IF target = ID_FLOATING THEN <<DetachReq(ev.drag.id)>>
                      ELSE <<AttachReq(ev.drag.id, target)>>

C29_Witness ==
    /\ variant = "immediate" /\ AfterPass
    /\ ev.h = "dnd" /\ ev.ok
    /\ ev.drop.depth = 1
    /\ ev.sent = <<AttachReq(ev.drag.id, ev.drop.parent)>>

(***************************************************************************)
(* C30  Apply with an empty list of staged changes sends the server        *)
(* nothing and runs no pass: the server's devices, Xlib's buffer, the      *)
(* tree, gds->generation and the list are after it what they were before.  *)
(***************************************************************************)
ApplyOnEmpty ==
    /\ variant = "staged" /\ pc = "loop" /\ changes = <<>>
    /\ ev'.h = "apply"

C30_ApplyEmptyNoOp ==
    [][ApplyOnEmpty =>
          /\ pc' = "handled"
          /\ ~ev'.q /\ ev'.sent = <<>>
          /\ UNCHANGED <<srv, outbuf, tree, generation, changes, devs>>]_vars

C30_Witness ==
    /\ variant = "staged" /\ pc = "handled"
    /\ ev.h = "apply" /\ changes = <<>>
    /\ generation = 2 /\ Len(tree) >= 3

(***************************************************************************)
(* C31  In the staged variant, when a handler has returned, the Apply and  *)
(* Cancel buttons are sensitive exactly when the list of staged changes is *)
(* not empty.                                                              *)
(***************************************************************************)
C31_ButtonsFollowList ==
    (variant = "staged" /\ pc = "handled") => (sensitive <=> changes # <<>>)

(***************************************************************************)
(* C32  In the immediate variant the Undo button sends the server nothing  *)
(* and runs no pass: the server's devices, Xlib's buffer, the tree,        *)
(* gds->generation and gds->changes are after it what they were before,    *)
(* and the button is insensitive.  gds->changes is empty in every state of *)
(* this variant.                                                           *)
(***************************************************************************)
UndoStep == variant = "immediate" /\ pc = "loop" /\ ev'.h = "undo"

C32_UndoChangesNothing ==
    /\ [](variant = "immediate" => changes = <<>>)
    /\ [][UndoStep =>
             /\ pc' = "handled"
             /\ ~ev'.q /\ ev'.sent = <<>>
             /\ ~sensitive'
             /\ UNCHANGED <<srv, outbuf, tree, generation, changes, devs>>]_vars

C32_Witness ==
    /\ variant = "immediate" /\ pc = "handled"
    /\ ev.h = "undo" /\ ~sensitive
    /\ generation = 2 /\ Len(tree) >= 3

(***************************************************************************)
(* C33  The id of the Floating row is the id of no device of the list, in  *)
(* either variant: after a pass every depth-0 row with that id is the      *)
(* Floating row itself, and every master of the list has a depth-0 row of  *)
(* its own that shows its use.                                             *)
(***************************************************************************)
C33_BucketIdApart ==
    AfterPass =>
        /\ FloatingId(variant) \notin ListIds(devs)
        /\ \A i \in 1..Len(tree) :
              tree[i].id = FloatingId(variant) => tree[i].name = "Floating"
        /\ \A d \in Range(devs) :
              IsMasterUse(d.use) =>
                  \E i \in 1..Len(tree) :
                      tree[i].id = d.deviceid /\ tree[i].use = d.use

(***************************************************************************)
(* C34  After a pass no device id is held by two rows of the tree: the ids *)
(* of the depth-0 rows (the Floating row left out) and of all child rows   *)
(* are pairwise different, also when a slave has changed its master or     *)
(* has been detached since the pass before.                                *)
(***************************************************************************)
\* the rows of device ids, each as <<i>> or <<i, j>>
DeviceRows(t, fid) ==
    {p \in Paths(t) : ~(Len(p) = 1 /\ t[p[1]].id = fid)}

OneRowPerId(t, fid) ==
    \A p, q \in DeviceRows(t, fid) : RowAt(t, p).id = RowAt(t, q).id => p = q

C34_OneRowPerId ==
    AfterPass => OneRowPerId(tree, FloatingId(variant))

C34_Witness ==
    /\ variant = "immediate" /\ AfterPass
    /\ ev.h = "dnd" /\ ev.ok /\ Len(ev.sent) = 1
    /\ ev.drop.parent # ID_FLOATING
    /\ \E i \in 1..Len(tree) :
          /\ tree[i].id = ev.drop.parent
          /\ \E k \in Range(tree[i].kids) :
                k.id = ev.drag.id /\ k.born = generation

====
